---- MODULE Spec2Model ----
(***************************************************************************)
(* Model of the threat-dashboard.                                          *)
(*   Spec        the API routes, each handling one inbound request: the    *)
(*               7-day JSON routes (/api/threats, /api/credentials), the   *)
(*               bulk CSV routes (/api/bulk, /api/markets, /api/telegram)  *)
(*               and the series routes (/api/monthly, /api/yearly)         *)
(*   LiveSpec    /api/telegram under weak fairness                         *)
(*   WindowSpec  the date-window generators and the query builders         *)
(*   FetcherSpec fetchDailyTotal of /api/telegram for any maxRetries       *)
(*   HomeSpec    the dashboard page and its three query forms              *)
(*   StixSpec    the STIX page, its generate request and its blob URLs     *)
(*   UploadSpec  the Telegram upload form                                  *)
(* An action is the code a handler runs between two awaits.                *)
(***************************************************************************)
EXTENDS Integers, Sequences, FiniteSets, TLC

VARIABLES
    route,      \* which route handles the inbound request
    request,    \* the inbound request body
    pc,         \* position of the handler: "idle", "inflight", "backoff", "pacing", "done"
    keywords,   \* bulk routes: keywords parsed from the upload
    ki,         \* index of the keyword being processed
    di,         \* index of the day being processed
    attempt,    \* telegram fetchDailyTotal: attempt number of the current call
    hadRetries, \* telegram fetchDailyTotal: hadRetries
    rowData,    \* bulk routes: the row being assembled
    results,    \* bulk routes: rows pushed so far
    retryLog,   \* telegram: retryLog
    partial,    \* JSON routes: partial
    dailyResults, \* JSON routes: dailyResults
    elapsed,    \* telegram: Date.now() - startTime in ms, as last sampled at an await
    inFlight,   \* number of upstream calls in flight
    waited,     \* ms slept since the previous upstream call ended
    calls,      \* cells (keyword index, day index) for which an upstream call was started
    cell,       \* trace of the current (keyword, day) fetch: attempts, last answer, waits, result
    stopped,    \* telegram: a budget check has observed the limit exceeded
    faults,     \* number of cells so far with an answer that was not a well-formed OK
    response,   \* the HTTP response of the route, once produced
    failedCells, \* history: the cells whose fetch ended in Failure
    retriedCells, \* history: the cells whose fetch needed more than one attempt
    tz,         \* window generators: the time zone of the server
    clock,      \* window generators: Date.now() in seconds since 1970-01-01T00:00:00Z
    generator,  \* window generators: the generator called
    window,     \* window generators: the list the generator returned
    payload,    \* query builders: the payload built for one interval of the window
    maxRetriesArg, \* telegram fetchDailyTotal on its own: its maxRetries parameter
    home,       \* dashboard page: the state of the Home component
    pending,    \* dashboard page: the requests its handlers have in flight
    submitted,  \* dashboard page: number of forms submitted so far
    lastDone,   \* history: the request of the page that completed last
    stix,       \* STIX page: the state of the VulnStixPage component
    stixRequest, \* STIX page: the response of the generate request in flight
    stixAt,     \* STIX page: the await at which handleGenerateClick is suspended
    blobUrls,   \* STIX page: the blob URLs created and those revoked
    effectUrl,  \* STIX page: the downloadUrl the effect last ran for
    stixDone,   \* history: what each completed generate request was answered with
    csvUpload,  \* upload form: the state of the CsvUploadTelegram component
    uploads,    \* upload form: the runs of handleUpload, in the order of the clicks
    posted      \* history: the files sent to /api/telegram

\* the state of one request to a route
routeVars == <<route, request, pc, keywords, ki, di, attempt, hadRetries, rowData,
               results, retryLog, partial, dailyResults, elapsed, inFlight, waited,
               calls, cell, stopped, faults, response, failedCells, retriedCells>>

\* the state of one call of a window generator and of a query builder
windowVars == <<tz, clock, generator, window, payload>>

\* the state of one call of the telegram fetchDailyTotal on its own
fetcherVars == <<maxRetriesArg>>

\* the state of the dashboard page
homeVars == <<home, pending, submitted, lastDone>>

\* the state of the STIX page
stixVars == <<stix, stixRequest, stixAt, blobUrls, effectUrl, stixDone>>

\* the state of the Telegram upload form
uploadVars == <<csvUpload, uploads, posted>>

\* everything a step of a route handler leaves alone
otherVars == <<windowVars, fetcherVars, homeVars, stixVars, uploadVars>>

vars == <<routeVars, otherVars>>

-----------------------------------------------------------------------------
(* Bounds of the model *)

\* at most this many keywords in an uploaded file
MaxKeywords == 2
\* at most this many cells of one run receive an upstream answer that is not a
\* well-formed OK; such a cell may receive any answers on all of its attempts
MaxFaultyCells == 1
\* the 365-day route is followed over the last this many days of its window
MaxYearlyDays == 8
\* fetchDailyTotal on its own is called with maxRetries up to this
MaxRetriesParam == 7
\* at most this many forms of the dashboard page are submitted
MaxSubmits == 2
\* at most this many STIX bundles are generated
MaxGenerations == 2
\* a STIX bundle holds at most this many objects
MaxObjects == 2
\* at most this many clicks on the Upload button
MaxUploads == 2
\* the most non-empty lines an uploaded file may have
LineLimit == 80

(* Program constants *)

WindowDays == 7
TIMEOUT_LIMIT == 280000
FETCH_TIMEOUT == 30000
DefaultMaxRetries == 3

-----------------------------------------------------------------------------
(* Text: a string is modelled as the sequence of its words *)

Includes(text, word) == \E i \in 1..Len(text) : text[i] = word

StatusText(status) ==
    CASE status = 200 -> "200"
      [] status = 404 -> "404"
      [] status = 429 -> "429"
      [] status = 500 -> "500"
      [] OTHER -> "???"

Min(a, b) == IF a < b THEN a ELSE b

RECURSIVE Pow(_, _)
Pow(b, n) == IF n = 0 THEN 1 ELSE b * Pow(b, n - 1)

-----------------------------------------------------------------------------
(* Routes *)

JsonRoutes == {"threats", "credentials"}
BulkRoutes == {"bulk", "markets", "telegram"}
\* the single-keyword CSV routes: 12 months and 365 days
SeriesRoutes == {"monthly", "yearly"}
Routes == JsonRoutes \cup BulkRoutes \cup SeriesRoutes

\* getLast7DaysExcludingToday(), evaluated on 2024-03-15 at a UTC server
days ==
    <<"2024-03-08", "2024-03-09", "2024-03-10", "2024-03-11",
      "2024-03-12", "2024-03-13", "2024-03-14">>

\* the internal key `day${i + 1}` of the communities and markets routes
DayKey(i) ==
    CASE i = 1 -> "day1" [] i = 2 -> "day2" [] i = 3 -> "day3" [] i = 4 -> "day4"
      [] i = 5 -> "day5" [] i = 6 -> "day6" [] i = 7 -> "day7" [] i = 8 -> "day8"
      [] i = 9 -> "day9" [] i = 10 -> "day10" [] OTHER -> "dayN"

\* the key under which a route stores the count of day i in rowData
CellKey(r, i) == IF r = "telegram" THEN days[i] ELSE DayKey(i)

\* mutant: no route sleeps between calls
NoPacingDelay(r) == 0

\* the pacing delay a route sleeps after a fetch, 0 where the route has none
PacingDelay(r) ==
    CASE r = "threats" -> 250
      [] r = "credentials" -> 3000
      [] r = "markets" -> 250
      [] r = "telegram" -> 100
      [] r = "bulk" -> 0
      [] r = "monthly" -> 250
      [] r = "yearly" -> 250

-----------------------------------------------------------------------------
(* Inbound requests *)

\* the i-th keyword of an upload; the second one contains the word "fetch"
Keyword(i) ==
    CASE i = 1 -> <<"acme">>
      [] i = 2 -> <<"fetch", "api">>
      [] OTHER -> <<"corp">>

\* an uploaded CSV: an empty line, a row whose first column is empty, then n keywords
UploadLines(n) ==
    << <<>>, << <<>>, <<"note">> >> >> \o [i \in 1..n |-> <<Keyword(i)>>]

\* multipart requests to a bulk route
BulkRequests ==
    {[form |-> "notMultipart", file |-> "missing", lines |-> <<>>],
     [form |-> "multipart", file |-> "missing", lines |-> <<>>],
     [form |-> "multipart", file |-> "string", lines |-> <<>>]}
    \cup {[form |-> "multipart", file |-> "file", lines |-> UploadLines(n)] :
             n \in 0..MaxKeywords}

\* JSON requests to a single-keyword route; keyword <<>> is a missing or empty one
JsonRequests ==
    {[body |-> "malformed", keyword |-> <<>>],
     [body |-> "null", keyword |-> <<>>],
     [body |-> "object", keyword |-> <<>>],
     [body |-> "object", keyword |-> Keyword(1)]}

Requests(r) == IF r \in BulkRoutes THEN BulkRequests ELSE JsonRequests

\* parseCSV(csvText, {header: false, skipEmptyLines: true})
ParseCSV(lines) == SelectSeq(lines, LAMBDA row : row # <<>>)

\* rows.map(row => row[0]).filter(Boolean)
ExtractKeywords(lines) ==
    LET rows == ParseCSV(lines)
        firsts == [i \in 1..Len(rows) |-> rows[i][1]]
    IN SelectSeq(firsts, LAMBDA k : k # <<>>)

-----------------------------------------------------------------------------
(* The upstream search API *)

\* the count the upstream holds for keyword k on day d
UpstreamTotal(k, d) == IF d % 2 = 0 THEN 0 ELSE d + k

Answer(kind, status, shape, n, text) ==
    [kind |-> kind, status |-> status, shape |-> shape, n |-> n, text |-> text]

\* a well-formed OK answer: {"total": {"value": n}}
Nominal(k, d) == Answer("http", 200, "total.value", UpstreamTotal(k, d), <<>>)

\* every other answer: an OK body that holds the count at hits.total or is not
\* JSON, an error status with its body text, a network failure and, where the
\* route arms an abort timer, a timeout
Anomalies(r, k, d) ==
    {Answer("http", 200, shape, UpstreamTotal(k, d), <<>>) :
        shape \in {"hits.total", "unparsable"}}
    \cup {Answer("http", status, "none", 0, <<"Too", "Many", "Requests">>) :
             status \in {429}}
    \cup {Answer("http", status, "none", 0, <<"Bad", "Gateway">>) :
             status \in {500}}
    \cup {Answer("http", 404, "none", 0, text) :
             text \in {<<"Not", "Found">>, <<"cannot", "fetch", "index">>}}
    \cup {Answer("network", 0, "none", 0, <<>>)}
    \cup (IF r = "telegram" THEN {Answer("timeout", 0, "none", 0, <<>>)} ELSE {})

\* apiResponse.ok
Ok(answer) == answer.kind = "http" /\ answer.status >= 200 /\ answer.status <= 299

-----------------------------------------------------------------------------
(* Fetchers *)

\* data?.total?.value ?? 0
TotalValue(answer) == IF answer.shape = "total.value" THEN answer.n ELSE 0

\* credentials: data.hits.total when it is a number, else data?.total?.value ?? 0
CredentialsTotal(answer) ==
    IF answer.shape = "hits.total" THEN answer.n ELSE TotalValue(answer)

Thrown(name, message) == [name |-> name, message |-> message]

\* `Day ${day} for keyword "${keyword}" => ${status}: ${errorText}`
HttpErrorMessage(kw, day, answer) ==
    <<"Day", day, "for", "keyword">> \o kw \o <<"=>", StatusText(answer.status)>>
        \o answer.text

\* what awaiting fetch(), or reading the body, throws; NoError when nothing
NoError == Thrown("", <<>>)
FetchError(answer) ==
    CASE answer.kind = "network" -> Thrown("TypeError", <<"fetch", "failed">>)
      [] answer.kind = "timeout" ->
            Thrown("AbortError", <<"This", "operation", "was", "aborted">>)
      [] Ok(answer) /\ answer.shape = "unparsable" ->
            Thrown("SyntaxError", <<"Unexpected", "token">>)
      [] OTHER -> NoError

\* fetchDailyTotal of the routes without retries: one call, a count or a throw
FetchOnce(r, answer) ==
    IF FetchError(answer) # NoError \/ ~Ok(answer)
    THEN [ok |-> FALSE, count |-> 0]
    ELSE [ok |-> TRUE,
          count |-> IF r = "credentials" THEN CredentialsTotal(answer)
                    ELSE TotalValue(answer)]

\* Math.min(Math.pow(3, attempt) * 5000, 60000)
RateLimitDelay(n) == Min(Pow(3, n) * 5000, 60000)

\* Math.pow(2, attempt) * 1000
GenericDelay(n) == Pow(2, n) * 1000

\* mutant: only the abort of the timer counts as retryable
IsAbortErrorOnly(error) == error.name = "AbortError"

\* error.name === 'AbortError' || error.message.includes('fetch')
IsTimeoutOrNetworkError(error) ==
    error.name = "AbortError" \/ Includes(error.message, "fetch")

Step(kind, wait, retried, count) ==
    [kind |-> kind, wait |-> wait, hadRetries |-> retried, count |-> count]

\* mutant: the catch block without its `attempt === maxRetries` test
CatchBlockUnbounded(n, maxRetries, error, retried) ==
    IF IsTimeoutOrNetworkError(error)
    THEN Step("retry", GenericDelay(n), TRUE, 0)
    ELSE Step("throw", 0, retried, 0)

\* the catch block of one attempt of the telegram fetchDailyTotal
CatchBlock(n, maxRetries, error, retried) ==
    IF n = maxRetries THEN Step("throw", 0, retried, 0)
    ELSE IF IsTimeoutOrNetworkError(error)
         THEN Step("retry", GenericDelay(n), TRUE, 0)
         ELSE Step("throw", 0, retried, 0)

\* one iteration of the retry loop of the telegram fetchDailyTotal, given the
\* answer the upstream call of attempt n received
TelegramAttempt(n, maxRetries, kw, day, answer, retried) ==
    IF FetchError(answer) # NoError
    THEN CatchBlock(n, maxRetries, FetchError(answer), retried)
    ELSE IF ~Ok(answer)
    THEN IF answer.status = 429 /\ n < maxRetries
         THEN Step("retry", RateLimitDelay(n), TRUE, 0)
         ELSE IF answer.status >= 500 /\ n < maxRetries
         THEN Step("retry", GenericDelay(n), TRUE, 0)
         ELSE CatchBlock(n, maxRetries,
                         Thrown("Error", HttpErrorMessage(kw, day, answer)), retried)
    ELSE Step("return", 0, retried, TotalValue(answer))

-----------------------------------------------------------------------------
(* State of one request, as a record the handler steps transform *)

S ==
    [route |-> route, request |-> request, pc |-> pc, keywords |-> keywords,
     ki |-> ki, di |-> di, attempt |-> attempt, hadRetries |-> hadRetries,
     rowData |-> rowData, results |-> results, retryLog |-> retryLog,
     partial |-> partial, dailyResults |-> dailyResults, elapsed |-> elapsed,
     inFlight |-> inFlight, waited |-> waited, calls |-> calls, cell |-> cell,
     stopped |-> stopped, faults |-> faults, response |-> response,
     failed |-> failedCells, retried |-> retriedCells]

Set(s) ==
    \E v \in {s} :
        /\ route' = v.route /\ request' = v.request /\ pc' = v.pc
        /\ keywords' = v.keywords /\ ki' = v.ki /\ di' = v.di
        /\ attempt' = v.attempt /\ hadRetries' = v.hadRetries
        /\ rowData' = v.rowData /\ results' = v.results /\ retryLog' = v.retryLog
        /\ partial' = v.partial /\ dailyResults' = v.dailyResults
        /\ elapsed' = v.elapsed /\ inFlight' = v.inFlight /\ waited' = v.waited
        /\ calls' = v.calls /\ cell' = v.cell /\ stopped' = v.stopped
        /\ faults' = v.faults /\ response' = v.response
        /\ failedCells' = v.failed /\ retriedCells' = v.retried
        /\ UNCHANGED otherVars

NoRow == [k \in {} |-> 0]
NoAnswer == Answer("none", 0, "none", 0, <<>>)
NoCell ==
    [k |-> 0, d |-> 0, attempts |-> <<>>, answer |-> NoAnswer, waits |-> <<>>,
     result |-> "none", count |-> 0, hadRetries |-> FALSE]
NewCell(k, d) == [NoCell EXCEPT !.k = k, !.d = d, !.result = "pending"]

NoResponse ==
    [status |-> 0, type |-> "none", error |-> "", partial |-> FALSE, data |-> <<>>,
     csv |-> <<>>, trailer |-> <<>>, xRetryCount |-> <<>>, xRetryInfo |-> <<>>,
     body |-> <<>>]

\* Time passes while the handler awaits. How long an upstream call and its body
\* read take is up to the upstream, so the clock is sampled: when an await
\* ends, Date.now() - startTime is any of these instants not before the last one.
\* Only the telegram route reads the clock.
Instants == {0, TIMEOUT_LIMIT, TIMEOUT_LIMIT + 1}
Later(s) ==
    IF s.route = "telegram" THEN {t \in Instants : t >= s.elapsed} ELSE {s.elapsed}

\* Date.now() - startTime > TIMEOUT_LIMIT
OverBudget(el) == el > TIMEOUT_LIMIT

\* NextResponse.json({ error }, { status })
ErrorResponse(s, status, error) ==
    [s EXCEPT !.pc = "done",
              !.response = [NoResponse EXCEPT !.status = status, !.type = "json",
                                              !.error = error]]

\* the upstream call of attempt n for cell (k, d) is issued
StartCall(s, k, d, n) ==
    [s EXCEPT !.pc = "inflight", !.ki = k, !.di = d, !.attempt = n,
              !.inFlight = @ + 1,
              !.calls = @ \cup {<<k, d>>},
              !.hadRetries = IF n = 1 THEN FALSE ELSE @,
              !.cell = IF n = 1 THEN [NewCell(k, d) EXCEPT !.attempts = <<1>>]
                       ELSE [@ EXCEPT !.attempts = Append(@, n), !.answer = NoAnswer]]

\* mutant: the timer rejects the await but leaves the call running
EndCallNoAbort(s, answer, now) ==
    [s EXCEPT !.inFlight = IF answer.kind = "timeout" THEN @ ELSE @ - 1,
              !.waited = 0,
              !.elapsed = now,
              !.faults = IF answer # Nominal(s.ki, s.di) /\ s.attempt = 1
                         THEN @ + 1 ELSE @,
              !.cell = [@ EXCEPT !.answer = answer]]

\* the call in flight has returned, failed, or been aborted by its timer
EndCall(s, answer, now) ==
    [s EXCEPT !.inFlight = @ - 1,
              !.waited = 0,
              !.elapsed = now,
              !.faults = IF answer # Nominal(s.ki, s.di) /\ s.attempt = 1
                         THEN @ + 1 ELSE @,
              !.cell = [@ EXCEPT !.answer = answer]]

\* await new Promise(resolve => setTimeout(resolve, ms))
Sleep(s, ms, now) ==
    [s EXCEPT !.waited = @ + ms, !.elapsed = now]

-----------------------------------------------------------------------------
(* JSON routes: /api/threats and /api/credentials *)

\* NextResponse.json({ partial, data: dailyResults }, { status: 200 })
JsonRespond(s) ==
    [s EXCEPT !.pc = "done",
              !.response = [NoResponse EXCEPT !.status = 200, !.type = "json",
                                              !.partial = s.partial,
                                              !.data = s.dailyResults]]

\* the head of `for (const day of days)`
JsonLoop(s) ==
    IF s.di <= WindowDays THEN StartCall(s, 1, s.di, 1) ELSE JsonRespond(s)

\* mutant: the catch sets partial but does not break
JsonSettleNoBreak(s, answer) ==
    LET r == FetchOnce(s.route, answer)
    IN IF r.ok
       THEN [s EXCEPT !.dailyResults =
                          Append(@, [day |-> days[s.di], value |-> r.count,
                                     relation |-> "="]),
                      !.cell = [@ EXCEPT !.result = "success", !.count = r.count],
                      !.pc = "pacing"]
       ELSE [s EXCEPT !.partial = TRUE, !.pc = "pacing",
                      !.failed = @ \cup {<<s.ki, s.di>>},
                      !.cell = [@ EXCEPT !.result = "failure"]]

\* the body of the loop once fetchDailyTotal has settled
JsonSettle(s, answer) ==
    LET r == FetchOnce(s.route, answer)
    IN IF r.ok
       THEN [s EXCEPT !.dailyResults =
                          Append(@, [day |-> days[s.di], value |-> r.count,
                                     relation |-> "="]),
                      !.cell = [@ EXCEPT !.result = "success", !.count = r.count],
                      !.pc = "pacing"]
       ELSE JsonRespond([s EXCEPT !.partial = TRUE,
                                  !.failed = @ \cup {<<s.ki, s.di>>},
                                  !.cell = [@ EXCEPT !.result = "failure"]])

\* POST up to its first upstream call
JsonPost(s) ==
    IF s.request.body = "malformed"
    THEN ErrorResponse(s, 500, "Internal Server Error")
    ELSE IF s.request.keyword = <<>>
    THEN ErrorResponse(s, 400, "Missing 'keyword'")
    ELSE JsonLoop([s EXCEPT !.keywords = <<s.request.keyword>>, !.partial = FALSE,
                            !.dailyResults = <<>>, !.ki = 1, !.di = 1])

-----------------------------------------------------------------------------
(* Bulk routes: /api/bulk, /api/markets and /api/telegram *)

LogEntry(type, kw, day, done, total) ==
    [type |-> type, keyword |-> kw, day |-> day, done |-> done, total |-> total]

\* `Processing stopped due to timeout - not all keywords completed`
StoppedEntry == LogEntry("stopped", <<>>, "", 0, 0)
\* `Processing incomplete: ${done}/${total} keywords processed due to timeout`
IncompleteEntry(done, total) == LogEntry("incomplete", <<>>, "", done, total)
\* `Successfully recovered "${keyword}" on ${day} after retries`
RecoveredEntry(kw, day) == LogEntry("recovered", kw, day, 0, 0)
\* `Failed to process "${keyword}" on ${day} after retries`
FailedEntry(kw, day) == LogEntry("failed", kw, day, 0, 0)

\* const rowData = { keyword }
NewRow(kw) == "keyword" :> kw

\* rowData[key] = value
PutCell(row, key, value) == (key :> value) @@ row

\* the fields handed to json2csv
Fields(r) == <<"keyword">> \o [i \in 1..WindowDays |-> CellKey(r, i)]

\* json2csv: a header line of the field names, then one line per row holding the
\* row's value of each field, empty where the row has none
ToCsv(fields, rows) ==
    <<fields>> \o
    [i \in 1..Len(rows) |->
        [j \in 1..Len(fields) |->
            IF fields[j] \in DOMAIN rows[i]
            THEN IF fields[j] = "keyword" THEN rows[i][fields[j]]
                 ELSE <<rows[i][fields[j]]>>
            ELSE <<>>]]

\* markets: columns 2.. of the first line are overwritten with the date strings
RelabelHeader(csvLines) ==
    IF Len(csvLines) > 0
    THEN [csvLines EXCEPT
             ![1] = [j \in 1..Len(csvLines[1]) |->
                        IF j >= 2 /\ j <= WindowDays + 1 THEN days[j - 1]
                        ELSE csvLines[1][j]]]
    ELSE csvLines

\* the CSV text a bulk route sends
FinalCsv(r, rows) ==
    IF r = "markets" THEN RelabelHeader(ToCsv(Fields(r), rows))
    ELSE ToCsv(Fields(r), rows)

\* mutant: the comment block is appended whether or not anything was logged
TrailerAlways(log) ==
    <<LogEntry("blank", <<>>, "", 0, 0), LogEntry("title", <<>>, "", 0, 0)>>
        \o log \o <<LogEntry("note", <<>>, "", 0, 0)>>

\* telegram: the comment block appended when retryLog is not empty
Trailer(log) ==
    IF Len(log) > 0
    THEN <<LogEntry("blank", <<>>, "", 0, 0), LogEntry("title", <<>>, "", 0, 0)>>
         \o log \o <<LogEntry("note", <<>>, "", 0, 0)>>
    ELSE <<>>

\* telegram: outputCsv += the comment block
OutputCsv(r, csvLines, log) ==
    IF r = "telegram" THEN csvLines \o Trailer(log) ELSE csvLines

\* new Response(csv, { status: 200, headers })
BulkRespond(s) ==
    [s EXCEPT !.pc = "done",
              !.response =
                  [NoResponse EXCEPT
                      !.status = 200, !.type = "csv",
                      !.csv = FinalCsv(s.route, s.results),
                      !.trailer = IF s.route = "telegram" THEN Trailer(s.retryLog)
                                  ELSE <<>>,
                      !.body = OutputCsv(s.route, FinalCsv(s.route, s.results),
                                         s.retryLog),
                      !.xRetryCount = IF s.route = "telegram" /\ Len(s.retryLog) > 0
                                      THEN <<Len(s.retryLog)>> ELSE <<>>,
                      !.xRetryInfo = IF s.route = "telegram" /\ Len(s.retryLog) > 0
                                     THEN <<"Some", "requests", "required", "retries">>
                                     ELSE <<>>]]

RECURSIVE BulkLoop(_)

\* the end of a keyword's day loop: the row is pushed, telegram checks its
\* budget, and the keyword loop moves on or ends
RowEnd(s) ==
    LET pushed == [s EXCEPT !.results = Append(@, s.rowData)]
    IN IF s.route = "telegram" /\ OverBudget(s.elapsed)
       THEN BulkRespond(
                [pushed EXCEPT
                    !.retryLog = Append(@, IncompleteEntry(Len(pushed.results),
                                                           Len(s.keywords))),
                    !.stopped = TRUE])
       ELSE IF s.ki < Len(s.keywords)
       THEN BulkLoop([pushed EXCEPT !.ki = s.ki + 1, !.di = 1,
                                    !.rowData = NewRow(s.keywords[s.ki + 1])])
       ELSE BulkRespond(pushed)

\* mutant: the budget check before a day logs the stop but does not break
BulkLoopNoBreak(s) ==
    IF s.di <= WindowDays
    THEN IF s.route = "telegram" /\ OverBudget(s.elapsed)
         THEN StartCall([s EXCEPT !.retryLog = Append(@, StoppedEntry),
                                  !.stopped = TRUE], s.ki, s.di, 1)
         ELSE StartCall(s, s.ki, s.di, 1)
    ELSE RowEnd(s)

\* the two nested loops from day index s.di of keyword s.ki on, up to the next
\* upstream call or the response; telegram checks its budget before each day
BulkLoop(s) ==
    IF s.di <= WindowDays
    THEN IF s.route = "telegram" /\ OverBudget(s.elapsed)
         THEN RowEnd([s EXCEPT !.retryLog = Append(@, StoppedEntry),
                               !.stopped = TRUE])
         ELSE StartCall(s, s.ki, s.di, 1)
    ELSE RowEnd(s)

\* after a cell's value is stored: the pacing sleep, or straight on where the
\* route has none
AfterCell(s) ==
    IF PacingDelay(s.route) > 0 THEN [s EXCEPT !.pc = "pacing"]
    ELSE BulkLoop([s EXCEPT !.di = s.di + 1])

\* mutant: a failed cell ends the run, as in the single-keyword routes
PlainSettleFailFast(s, answer) ==
    LET r == FetchOnce(s.route, answer)
        stored == [s EXCEPT !.rowData = PutCell(@, CellKey(s.route, s.di),
                                                IF r.ok THEN r.count ELSE 0),
                            !.failed = IF r.ok THEN @ ELSE @ \cup {<<s.ki, s.di>>},
                            !.cell = [@ EXCEPT !.result = IF r.ok THEN "success"
                                                          ELSE "failure",
                                               !.count = IF r.ok THEN r.count ELSE 0]]
    IN IF r.ok THEN AfterCell(stored)
       ELSE BulkRespond([stored EXCEPT !.results = Append(@, stored.rowData)])

\* communities and markets: try { count = await fetchDailyTotal } catch { 0 }
PlainSettle(s, answer) ==
    LET r == FetchOnce(s.route, answer)
    IN AfterCell(
          [s EXCEPT !.rowData = PutCell(@, CellKey(s.route, s.di),
                                        IF r.ok THEN r.count ELSE 0),
                    !.failed = IF r.ok THEN @ ELSE @ \cup {<<s.ki, s.di>>},
                    !.cell = [@ EXCEPT !.result = IF r.ok THEN "success" ELSE "failure",
                                       !.count = IF r.ok THEN r.count ELSE 0]])

\* mutant: every success is logged as a recovery
LogAnySuccess(log, retried, kw, day) == Append(log, RecoveredEntry(kw, day))

\* telegram: if (result.hadRetries) retryLog.push(recovered)
LogRecovery(log, retried, kw, day) ==
    IF retried THEN Append(log, RecoveredEntry(kw, day)) ELSE log

\* telegram: what POST does with the settled fetchDailyTotal
TelegramSettle(s, step) ==
    LET kw == s.keywords[s.ki]
        day == days[s.di]
    IN IF step.kind = "return"
       THEN AfterCell(
              [s EXCEPT !.rowData = PutCell(@, day, step.count),
                        !.hadRetries = step.hadRetries,
                        !.retryLog = LogRecovery(@, step.hadRetries, kw, day),
                        !.cell = [@ EXCEPT !.result = "success", !.count = step.count,
                                           !.hadRetries = step.hadRetries]])
       ELSE AfterCell(
              [s EXCEPT !.rowData = PutCell(@, day, 0),
                        !.hadRetries = step.hadRetries,
                        !.retryLog = Append(@, FailedEntry(kw, day)),
                        !.failed = @ \cup {<<s.ki, s.di>>},
                        !.cell = [@ EXCEPT !.result = "failure",
                                           !.hadRetries = step.hadRetries]])

\* telegram: one attempt's answer, through fetchDailyTotal and back to POST
TelegramAnswer(s, answer) ==
    LET step == TelegramAttempt(s.attempt, DefaultMaxRetries, s.keywords[s.ki],
                                days[s.di], answer, s.hadRetries)
    IN IF step.kind = "retry"
       THEN [s EXCEPT !.pc = "backoff", !.hadRetries = step.hadRetries,
                      !.retried = @ \cup {<<s.ki, s.di>>},
                      !.cell = [@ EXCEPT !.waits = Append(@, step.wait),
                                         !.hadRetries = step.hadRetries]]
       ELSE TelegramSettle(s, step)

\* telegram: the backoff sleep is over: `continue`, or the loop ends
TelegramRetry(s) ==
    IF s.attempt + 1 <= DefaultMaxRetries
    THEN StartCall(s, s.ki, s.di, s.attempt + 1)
    ELSE TelegramSettle(s, Step("return", 0, s.hadRetries, 0))

\* POST up to its first upstream call
BulkPost(s) ==
    IF s.request.form # "multipart" \/ s.request.file = "string"
    THEN ErrorResponse(s, 500, "Internal Server Error")
    ELSE IF s.request.file = "missing"
    THEN ErrorResponse(s, 400, "No file uploaded")
    ELSE LET kws == ExtractKeywords(s.request.lines)
         IN IF Len(kws) = 0
            THEN ErrorResponse(s, 400, "CSV is empty or invalid")
            ELSE BulkLoop([s EXCEPT !.keywords = kws, !.results = <<>>,
                                    !.retryLog = <<>>, !.elapsed = 0,
                                    !.ki = 1, !.di = 1,
                                    !.rowData = NewRow(kws[1])])

-----------------------------------------------------------------------------
(* Series routes: /api/monthly and /api/yearly, one keyword, one CSV row *)

\* getLast12MonthsExcludingCurrent() labels, evaluated on 2024-03-15 at a UTC server
months ==
    <<"2023-03", "2023-04", "2023-05", "2023-06", "2023-07", "2023-08",
      "2023-09", "2023-10", "2023-11", "2023-12", "2024-01", "2024-02">>

\* the end of getLast365DaysExcludingToday(), evaluated on the same day
recentDays ==
    <<"2024-03-05", "2024-03-06", "2024-03-07", "2024-03-08", "2024-03-09",
      "2024-03-10", "2024-03-11", "2024-03-12", "2024-03-13", "2024-03-14">>

\* the labels of the intervals a series route walks through, oldest first
SeriesLabels(r) ==
    IF r = "monthly" THEN months
    ELSE SubSeq(recentDays, Len(recentDays) - MaxYearlyDays + 1, Len(recentDays))

\* the internal key `month${i + 1}`
MonthKey(i) ==
    CASE i = 1 -> "month1" [] i = 2 -> "month2" [] i = 3 -> "month3"
      [] i = 4 -> "month4" [] i = 5 -> "month5" [] i = 6 -> "month6"
      [] i = 7 -> "month7" [] i = 8 -> "month8" [] i = 9 -> "month9"
      [] i = 10 -> "month10" [] i = 11 -> "month11" [] i = 12 -> "month12"
      [] OTHER -> "monthN"

SeriesKey(r, i) == IF r = "monthly" THEN MonthKey(i) ELSE DayKey(i)

SeriesFields(r) ==
    <<"keyword">> \o [i \in 1..Len(SeriesLabels(r)) |-> SeriesKey(r, i)]

\* columns 2.. of the first line are overwritten with the labels
SeriesRelabel(csvLines, labels) ==
    IF Len(csvLines) > 0
    THEN [csvLines EXCEPT
             ![1] = [j \in 1..Len(csvLines[1]) |->
                        IF j >= 2 /\ j <= Len(labels) + 1 THEN labels[j - 1]
                        ELSE csvLines[1][j]]]
    ELSE csvLines

\* new Response(finalCsv, { status: 200, headers })
SeriesRespond(s) ==
    [s EXCEPT !.pc = "done",
              !.response =
                  [NoResponse EXCEPT
                      !.status = 200, !.type = "csv",
                      !.csv = SeriesRelabel(ToCsv(SeriesFields(s.route), <<s.rowData>>),
                                            SeriesLabels(s.route)),
                      !.body = SeriesRelabel(ToCsv(SeriesFields(s.route), <<s.rowData>>),
                                             SeriesLabels(s.route))]]

\* the head of `for (let i = 0; i < months.length; i++)`
SeriesLoop(s) ==
    IF s.di <= Len(SeriesLabels(s.route)) THEN StartCall(s, 1, s.di, 1)
    ELSE SeriesRespond(s)

\* try { resultRow[key] = await fetch...Total } catch { resultRow[key] = 0 },
\* then the 250 ms sleep
SeriesSettle(s, answer) ==
    LET r == FetchOnce(s.route, answer)
    IN [s EXCEPT !.rowData = PutCell(@, SeriesKey(s.route, s.di),
                                     IF r.ok THEN r.count ELSE 0),
                 !.failed = IF r.ok THEN @ ELSE @ \cup {<<s.ki, s.di>>},
                 !.cell = [@ EXCEPT !.result = IF r.ok THEN "success" ELSE "failure",
                                    !.count = IF r.ok THEN r.count ELSE 0],
                 !.pc = "pacing"]

\* POST up to its first upstream call
SeriesPost(s) ==
    IF s.request.body = "malformed"
    THEN ErrorResponse(s, 500, "Internal Server Error")
    ELSE IF s.request.keyword = <<>>
    THEN ErrorResponse(s, 400, "Missing 'keyword'")
    ELSE SeriesLoop([s EXCEPT !.keywords = <<s.request.keyword>>, !.ki = 1, !.di = 1,
                              !.rowData = NewRow(s.request.keyword)])

-----------------------------------------------------------------------------
(* Dates: an instant is a number of seconds since 1970-01-01T00:00:00Z, a civil
   date is <<year, month, day>> with month in 1..12 *)

SecondsPerHour == 60 * 60
SecondsPerDay == 24 * 60 * 60

\* the number of days from 1970-01-01 to the civil date c = <<y, m, d>>, where
\* m and d may be any integers (Date's MakeDay)
DayNumber[c \in Int \X Int \X Int] ==
    LET y == c[1]
        m == c[2]
        d == c[3]
        y1 == y + ((m - 1) \div 12)
        m1 == ((m - 1) % 12) + 1
        yy == IF m1 <= 2 THEN y1 - 1 ELSE y1
        era == yy \div 400
        yoe == yy - era * 400
        mp == IF m1 > 2 THEN m1 - 3 ELSE m1 + 9
        doy == (153 * mp + 2) \div 5
        doe == yoe * 365 + (yoe \div 4) - (yoe \div 100) + doy
    IN era * 146097 + doe - 719468 + (d - 1)

DaysFromCivil(y, m, d) == DayNumber[<<y, m, d>>]

\* the civil date of day number z
Civil[z \in Int] ==
    LET z1 == z + 719468
        era == z1 \div 146097
        doe == z1 - era * 146097
        yoe == (doe - (doe \div 1460) + (doe \div 36524) - (doe \div 146096)) \div 365
        doy == doe - (365 * yoe + (yoe \div 4) - (yoe \div 100))
        mp == (5 * doy + 2) \div 153
        d == doy - ((153 * mp + 2) \div 5) + 1
        m == IF mp < 10 THEN mp + 3 ELSE mp - 9
        y == yoe + era * 400 + (IF m <= 2 THEN 1 ELSE 0)
    IN <<y, m, d>>

CivilFromDays(z) == Civil[z]

\* the instant y-m-dTh:00:00Z
At(y, m, d, h) == DaysFromCivil(y, m, d) * SecondsPerDay + h * SecondsPerHour

(* Time zones of the server *)

Zones == {"UTC", "Asia/Tokyo", "America/New_York", "Europe/London"}

StdOffset(z) ==
    CASE z = "Asia/Tokyo" -> 9 * SecondsPerHour
      [] z = "America/New_York" -> 0 - 5 * SecondsPerHour
      [] OTHER -> 0

\* the periods [from, to) of daylight-saving time in 2023 and 2024
DstPeriods(z) ==
    CASE z = "America/New_York" ->
            {<<At(2023, 3, 12, 7), At(2023, 11, 5, 6)>>,
             <<At(2024, 3, 10, 7), At(2024, 11, 3, 6)>>}
      [] z = "Europe/London" ->
            {<<At(2023, 3, 26, 1), At(2023, 10, 29, 1)>>,
             <<At(2024, 3, 31, 1), At(2024, 10, 27, 1)>>}
      [] OTHER -> {}

\* the offset of local time from UTC at instant t
Offset(z, t) ==
    StdOffset(z)
        + (IF \E p \in DstPeriods(z) : p[1] <= t /\ t < p[2] THEN SecondsPerHour ELSE 0)

\* the instant at which the zone's clocks show `local`: the earlier one where
\* two do, the reading of the offset before the change where none does
LocalToUtc(z, local) ==
    LET cands == {local - StdOffset(z), local - StdOffset(z) - SecondsPerHour}
        valid == {c \in cands : c + Offset(z, c) = local}
    IN IF valid = {} THEN local - StdOffset(z)
       ELSE CHOOSE c \in valid : \A e \in valid : c <= e

(* Date objects *)

\* <<getFullYear(), getMonth() + 1, getDate()>>
LocalDate(z, t) == CivilFromDays((t + Offset(z, t)) \div SecondsPerDay)
GetFullYear(z, t) == LocalDate(z, t)[1]
GetMonth(z, t) == LocalDate(z, t)[2] - 1
GetDate(z, t) == LocalDate(z, t)[3]
LocalSecondOfDay(z, t) == (t + Offset(z, t)) % SecondsPerDay

\* the local time `secs` seconds into day `d` of month index `mi` of year `y`
MakeLocal(z, y, mi, d, secs) ==
    LocalToUtc(z, DaysFromCivil(y, mi + 1, d) * SecondsPerDay + secs)

\* new Date(year, monthIndex, day)
NewDate(z, y, mi, d) == MakeLocal(z, y, mi, d, 0)

\* date.setHours(0, 0, 0, 0)
SetHoursMidnight(z, t) ==
    MakeLocal(z, GetFullYear(z, t), GetMonth(z, t), GetDate(z, t), 0)

\* date.setDate(d)
SetDate(z, t, d) ==
    MakeLocal(z, GetFullYear(z, t), GetMonth(z, t), d, LocalSecondOfDay(z, t))

\* date.setMonth(mi)
SetMonth(z, t, mi) ==
    MakeLocal(z, GetFullYear(z, t), mi, GetDate(z, t), LocalSecondOfDay(z, t))

\* date.toISOString().split("T")[0]
IsoDate(t) == CivilFromDays(t \div SecondsPerDay)

\* `${date}T${hh}:${mm}:${ss}Z`
Timestamp(date, time) == [date |-> date, time |-> time]
StartOfDay(date) == Timestamp(date, <<0, 0, 0>>)
EndOfDay(date) == Timestamp(date, <<23, 59, 59>>)

\* the instant a timestamp string denotes
InstantOf(ts) ==
    DaysFromCivil(ts.date[1], ts.date[2], ts.date[3]) * SecondsPerDay
        + ts.time[1] * SecondsPerHour + ts.time[2] * 60 + ts.time[3]

-----------------------------------------------------------------------------
(* Window generators *)

\* now.setHours(0, 0, 0, 0); now.setDate(now.getDate() - 1); then the UTC dates
\* of the n instants 24 h apart that end there, oldest first
LastDaysExcludingToday(z, now, n) ==
    LET Days[yesterday \in Int] ==
            [j \in 1..n |-> IsoDate(yesterday - (n - j) * 24 * 60 * 60)]
        Yesterday[midnight \in Int] ==
            Days[SetDate(z, midnight, GetDate(z, midnight) - 1)]
    IN Yesterday[SetHoursMidnight(z, now)]

getLast7DaysExcludingToday(z, now) == LastDaysExcludingToday(z, now, 7)

getLast365DaysExcludingToday(z, now) == LastDaysExcludingToday(z, now, 365)

getLast12MonthsExcludingCurrent(z, now) ==
    LET Month[temp \in Int] ==
            LET startDate == NewDate(z, GetFullYear(z, temp), GetMonth(z, temp), 1)
                endDate == NewDate(z, GetFullYear(z, temp), GetMonth(z, temp) + 1, 0)
            IN [start |-> StartOfDay(IsoDate(startDate)),
                end |-> EndOfDay(IsoDate(endDate)),
                label |-> SubSeq(IsoDate(startDate), 1, 2)]
        Months[first \in Int] ==
            [j \in 1..12 |-> Month[SetMonth(z, first, GetMonth(z, first) - (13 - j))]]
    IN Months[SetHoursMidnight(z, SetDate(z, now, 1))]

\* the generator each route calls
GeneratorOf(r) ==
    CASE r = "monthly" -> "last12Months"
      [] r = "yearly" -> "last365Days"
      [] OTHER -> "last7Days"

Generate(g, z, now) ==
    CASE g = "last12Months" -> getLast12MonthsExcludingCurrent(z, now)
      [] g = "last365Days" -> getLast365DaysExcludingToday(z, now)
      [] OTHER -> getLast7DaysExcludingToday(z, now)

-----------------------------------------------------------------------------
(* Query builders *)

Payload(page, size, highlight, includeTotal, query, start, end, site) ==
    [page |-> page, size |-> size, highlight |-> highlight,
     includeTotal |-> includeTotal, query |-> query, start |-> start, end |-> end,
     site |-> site]

\* one call of a query builder: its arguments and the payload it returned
BuilderCall(keyword, index, body) ==
    [keyword |-> keyword, index |-> index, body |-> body]

NoPayload ==
    BuilderCall(<<>>, 0,
                Payload(0, 0, FALSE, "absent", <<>>, StartOfDay(<<0, 0, 0>>),
                        StartOfDay(<<0, 0, 0>>), <<>>))

\* buildDailyPayload(keyword, day) of each route
buildDailyPayload(r, keyword, day) ==
    CASE r = "telegram" ->
            Payload(0, 1, TRUE, "true", keyword, StartOfDay(day), EndOfDay(day),
                    <<"telegram">>)
      [] r = "markets" ->
            Payload(0, 0, TRUE, "absent", keyword, StartOfDay(day), EndOfDay(day), <<>>)
      [] r = "credentials" ->
            Payload(0, 0, TRUE, "true", <<"+basetypes:(credential-sighting)">> \o keyword,
                    StartOfDay(day), EndOfDay(day), <<>>)
      [] OTHER ->
            Payload(0, 0, TRUE, "true", keyword, StartOfDay(day), EndOfDay(day), <<>>)

\* buildMonthlyPayload(keyword, start, end)
buildMonthlyPayload(keyword, start, end) ==
    Payload(0, 0, TRUE, "true", keyword, start, end, <<>>)

\* the payload a route's fetcher builds for one interval of its window
BuildPayload(r, keyword, interval) ==
    IF r = "monthly" THEN buildMonthlyPayload(keyword, interval.start, interval.end)
    ELSE buildDailyPayload(r, keyword, interval)

-----------------------------------------------------------------------------
(* The dashboard page: the Home component, the query form of each of its tabs
   and the requests its handlers have in flight *)

\* a value that is null or the empty string is falsy
Truthy(text) == text # <<>>

\* the tabs with a query form, and one of the upload tabs
QueryTabs == {"keyword", "annual", "monthly"}
TabValues == QueryTabs \cup {"bulk-telegram"}

\* the two versions of the page: the later one renders the chart and the
\* 'No Data' banner in the 7-day tab only
PageVersions == {"page.tsx", "part_006"}

\* the useState initial values
HomeState(version) ==
    [version |-> version, chartData |-> <<>>, partial |-> FALSE, loading |-> FALSE,
     error |-> <<>>, currentKeyword |-> <<>>, activeTab |-> "keyword"]

\* {loading && ...}
ShowsLoading(h) == h.loading
\* {error && ...}
ShowsError(h) == Truthy(h.error)
\* {partial && !error && ...}
ShowsWarning(h) == h.partial /\ ~Truthy(h.error)
\* {chartData.length > 0 && ...}
ShowsChart(h) ==
    /\ Len(h.chartData) > 0
    /\ h.version = "part_006" => h.activeTab = "keyword"
\* {!loading && !error && chartData.length === 0 && ...}
ShowsNoData(h) ==
    /\ ~h.loading /\ ~Truthy(h.error) /\ Len(h.chartData) = 0
    /\ h.version = "part_006" => h.activeTab = "keyword"

\* the handlers up to their await fetch(...)
handleQuerySubmit(h, keyword) ==
    [h EXCEPT !.currentKeyword = keyword, !.loading = TRUE, !.error = <<>>,
              !.partial = FALSE, !.chartData = <<>>]

handleAnnualSubmit(h, keyword) ==
    [h EXCEPT !.currentKeyword = keyword, !.loading = TRUE, !.error = <<>>]

handleMonthlySubmit(h, keyword) ==
    [h EXCEPT !.currentKeyword = keyword, !.loading = TRUE, !.error = <<>>]

\* the handler of the form in a tab
HandleSubmit(h, tab, keyword) ==
    CASE tab = "keyword" -> handleQuerySubmit(h, keyword)
      [] tab = "annual" -> handleAnnualSubmit(h, keyword)
      [] OTHER -> handleMonthlySubmit(h, keyword)

\* `Failed to fetch ${what}. Status=${response.status}`
FailedToFetch(tab, status) ==
    <<"Failed", "to", "fetch">>
        \o (CASE tab = "keyword" -> <<"data.">>
              [] tab = "annual" -> <<"annual", "data.">>
              [] OTHER -> <<"monthly", "data.">>)
        \o <<"Status=", StatusText(status)>>

\* catch (err) { setError(err.message) } finally { setLoading(false) }
HomeCatch(h, error) == [h EXCEPT !.error = error.message, !.loading = FALSE]

\* the position of `date` in the window
DayIndex(date) == CHOOSE i \in 1..WindowDays : days[i] = date

\* rows.sort((a, b) => (a.date < b.date ? -1 : 1))
SortByDate(rows) ==
    LET n == Len(rows)
        Before(j, i) ==
            \/ DayIndex(rows[j].date) < DayIndex(rows[i].date)
            \/ DayIndex(rows[j].date) = DayIndex(rows[i].date) /\ j < i
        Rank(i) == Cardinality({j \in 1..n : Before(j, i)}) + 1
    IN [r \in 1..n |-> rows[CHOOSE i \in 1..n : Rank(i) = r]]

\* json.data.map(dayObj => ({ date: dayObj.day, count: dayObj.total?.value ?? 0 }))
\* and the sort by date
NewChartData(data) ==
    SortByDate([i \in 1..Len(data) |-> [date |-> data[i].day, count |-> data[i].value]])

\* handleQuerySubmit once response.json() has resolved
QueryParsed(h, json) ==
    [h EXCEPT !.partial = json.partial, !.chartData = NewChartData(json.data),
              !.loading = FALSE]

\* handleAnnualSubmit and handleMonthlySubmit once response.blob() has
\* resolved: the file is downloaded through a temporary link
BlobDownloaded(h) == [h EXCEPT !.loading = FALSE]

(* What the page's requests are answered with *)

\* the keywords typed into a form
HomeKeywords == {Keyword(1), Keyword(2)}
KeywordIndex(keyword) == IF keyword = Keyword(1) THEN 1 ELSE 2

\* the numbers of days /api/threats fetched before it answered: none when the
\* first day failed, all when no day failed
DataLengths == {0, 3, WindowDays}

\* the 200 response of /api/threats after n days
ThreatsOk(k, n) ==
    [NoResponse EXCEPT
        !.status = 200, !.type = "json", !.partial = n < WindowDays,
        !.data = [i \in 1..n |-> [day |-> days[i], value |-> UpstreamTotal(k, i),
                                  relation |-> "="]]]

\* the 200 response of /api/yearly and /api/monthly
SeriesOk == [NoResponse EXCEPT !.status = 200, !.type = "csv"]

InternalError ==
    [NoResponse EXCEPT !.status = 500, !.type = "json",
                       !.error = "Internal Server Error"]

Outcome(kind, resp, body) == [kind |-> kind, response |-> resp, body |-> body]
NoOutcome == Outcome("none", NoResponse, "none")

\* how await fetch(...) of a handler can settle: a response of the route, with
\* a body that parses or one that does not, or a network failure
Outcomes(tab, keyword) ==
    (IF tab = "keyword"
     THEN {Outcome("http", ThreatsOk(KeywordIndex(keyword), n), "json") :
              n \in DataLengths}
          \cup {Outcome("http", ThreatsOk(KeywordIndex(keyword), 0), "unparsable")}
     ELSE {Outcome("http", SeriesOk, "csv")})
    \cup {Outcome("http", InternalError, "json"),
          Outcome("network", NoResponse, "none")}

\* a request of the page: the handler that sent it and where the handler waits
PageRequest(id, tab, keyword, at, outcome) ==
    [id |-> id, handler |-> tab, keyword |-> keyword, pc |-> at, outcome |-> outcome]

\* the last request that completed, and how
Completed(tab, keyword, ok, part) ==
    [handler |-> tab, keyword |-> keyword, ok |-> ok, partial |-> part]
NoneCompleted == Completed("none", <<>>, FALSE, FALSE)

\* no form has been submitted yet
HomeIdle ==
    /\ home = HomeState("page.tsx")
    /\ pending = {} /\ submitted = 0
    /\ lastDone = NoneCompleted

-----------------------------------------------------------------------------
(* The STIX page: the VulnStixPage component, its generate request and the
   blob URLs it creates *)

\* the two versions of the page: the later one also revokes in the effect body
StixVersions == {"vuln-stix/page.tsx", "part_002"}

\* a blob URL is a positive number, null is 0
NoUrl == 0

StatusMessage(type, text) == [type |-> type, text |-> text]

\* the useState initial values
StixState(version) ==
    [version |-> version, mounted |-> TRUE,
     status |-> StatusMessage("info", <<"Ready", "to", "generate.">>),
     isLoading |-> FALSE, downloadUrl |-> NoUrl, bundleSizeBytes |-> 0]

\* the blob URLs created so far and those revoked
NoBlobUrls == [created |-> 0, revoked |-> {}]
\* URL.revokeObjectURL(url)
Revoke(blobs, url) ==
    IF url # NoUrl THEN [blobs EXCEPT !.revoked = @ \cup {url}] ELSE blobs

\* {downloadUrl && status.type === 'success' && ...}
ShowsDownload(x) == x.downloadUrl # NoUrl /\ x.status.type = "success"

(* What the generate request is answered with *)

StixAnswer(kind, status, contentType, body, objects, text) ==
    [kind |-> kind, status |-> status, contentType |-> contentType, body |-> body,
     objects |-> objects, text |-> text]
NoStixAnswer == StixAnswer("none", 0, "none", "none", 0, <<>>)

\* a JSON body that is an object with `objects` an array of n elements
BundleBody(n) == StixAnswer("http", 200, "application/json", "bundle", n, <<>>)

\* how await fetch(STIX_POC_ENDPOINT) can settle
StixAnswers ==
    {BundleBody(n) : n \in 0..MaxObjects}
    \cup {StixAnswer("http", 200, "application/json", body, 0, <<>>) :
             body \in {"null", "noObjects", "unparsable"}}
    \cup {StixAnswer("http", 200, contentType, "text", 0, <<"<html>">>) :
             contentType \in {"text/html", "none"}}
    \cup {StixAnswer("http", 500, "application/json", body, 0, <<"upstream", "down">>) :
             body \in {"detail", "message", "neither", "unparsable"}}
    \cup {StixAnswer("http", 404, contentType, "text", 0, <<"Not", "Found">>) :
             contentType \in {"text/html", "none"}}
    \cup {StixAnswer("network", 0, "none", "none", 0, <<>>)}

\* response.ok && contentType && contentType.includes("application/json")
IsOkJson(answer) ==
    Ok(answer) /\ answer.contentType # "none"
        /\ answer.contentType = "application/json"

\* blob.size of a body
BlobSize(answer) == 1024 * (1 + answer.objects)

\* mutant: a bundle with a single object counts as content
HasAnyObject(answer) == answer.body = "bundle" /\ answer.objects >= 1

\* bundleData && bundleData.objects && bundleData.objects.length > 1
HasContent(answer) == answer.body = "bundle" /\ answer.objects > 1

\* `Request failed with status ${response.status}`
RequestFailed(status) ==
    <<"Request", "failed", "with", "status", StatusText(status)>>

\* the message of the Error the else branch throws
ErrorMsg(answer) ==
    IF answer.contentType = "application/json"
    THEN CASE answer.body = "detail" -> <<"detail:">> \o answer.text
           [] answer.body = "message" -> <<"message:">> \o answer.text
           [] OTHER -> RequestFailed(answer.status)
    ELSE <<StatusText(answer.status), ":">> \o answer.text \o <<"...">>

\* the steps of handleGenerateClick: each takes the component state x and the
\* blob URLs and gives the new ones

Page(x, blobs) == [x |-> x, blobs |-> blobs]

\* up to await fetch(...)
GenerateClick(x, blobs) ==
    LET loading == [x EXCEPT !.isLoading = TRUE,
                             !.status = StatusMessage("info", <<"Generating">>)]
    IN IF x.downloadUrl # NoUrl
       THEN Page([loading EXCEPT !.downloadUrl = NoUrl, !.bundleSizeBytes = 0],
                 Revoke(blobs, x.downloadUrl))
       ELSE Page(loading, blobs)

\* catch (error) { setStatus(error) ... } finally { setIsLoading(false) }
StixCatch(x, blobs, message) ==
    Page([x EXCEPT !.status = StatusMessage("error", <<"Error:">> \o message),
                   !.downloadUrl = NoUrl, !.bundleSizeBytes = 0,
                   !.isLoading = FALSE],
         blobs)

\* the OK JSON branch once the blob and its text have been read
BundleRead(x, blobs, answer) ==
    IF answer.body = "unparsable"
    THEN StixCatch(x, blobs, <<"Failed", "to", "parse", "successful", "response",
                              "JSON.">>)
    ELSE IF HasContent(answer)
    THEN Page([x EXCEPT !.downloadUrl = blobs.created + 1,
                        !.bundleSizeBytes = BlobSize(answer),
                        !.status = StatusMessage("success",
                                       <<"Bundle", "generated", "successfully">>),
                        !.isLoading = FALSE],
              [blobs EXCEPT !.created = @ + 1])
    ELSE Page([x EXCEPT !.status = StatusMessage("warning",
                                       <<"Warning:", "No", "vulnerabilities", "found">>),
                        !.downloadUrl = NoUrl, !.bundleSizeBytes = 0,
                        !.isLoading = FALSE],
              blobs)

\* the else branch once the error body has been read
ErrorRead(x, blobs, answer) == StixCatch(x, blobs, ErrorMsg(answer))

\* the useEffect on [downloadUrl]: the cleanup of the previous run, then the
\* body, which in the later version revokes the URL it was run for
RunEffect(x, blobs, previous) ==
    LET cleaned == Revoke(blobs, previous)
    IN IF x.version = "vuln-stix/page.tsx" THEN Revoke(cleaned, x.downloadUrl)
       ELSE cleaned

\* no generation has been asked for yet; the mount effect has run
StixIdle ==
    /\ stix = StixState("vuln-stix/page.tsx")
    /\ stixRequest = NoStixAnswer /\ stixAt = "none"
    /\ blobUrls = NoBlobUrls /\ effectUrl = NoUrl
    /\ stixDone = <<>>

-----------------------------------------------------------------------------
(* The Telegram upload form: the CsvUploadTelegram component and the runs of
   its handleUpload *)

\* the file input holds no file
NoFile == "none"

\* the files the user can pick: name, MIME type and the lines of the text
\* split at "\n" ("" is an empty line, " " one of white space only)
KeywordLines(n) == [i \in 1..n |-> "keyword"]
FileType(file) == IF file = "notes.txt" THEN "text/plain" ELSE "text/csv"
FileText(file) ==
    CASE file = "small.csv" -> KeywordLines(2) \o <<"">>
      [] file = "limit.csv" -> <<"">> \o KeywordLines(LineLimit) \o <<" ", "">>
      [] file = "over.csv" -> KeywordLines(LineLimit + 1)
      [] file = "padded.csv" -> KeywordLines(LineLimit) \o <<"", "keyword", "">>
      [] OTHER -> <<"some", "notes">>
PickableFiles == {"small.csv", "limit.csv", "over.csv", "padded.csv", "notes.txt"}

\* line.trim()
Trim(line) == IF line \in {"", " "} THEN "" ELSE line
\* csvText.split("\n").filter((line) => line.trim() !== "")
NonEmptyLines(text) == SelectSeq(text, LAMBDA line : Trim(line) # "")
\* lines.length > 80
TooManyLines(text) == Len(NonEmptyLines(text)) > LineLimit

\* the useState initial values
CsvUploadState ==
    [file |-> NoFile, error |-> <<>>, warning |-> <<>>, processing |-> FALSE,
     downloadUrl |-> NoUrl]

\* disabled={!file || processing}
UploadDisabled(c) == c.file = NoFile \/ c.processing

\* handleFileChange for the file picked, NoFile when the dialog is cancelled
handleFileChange(c, selectedFile) ==
    IF selectedFile # NoFile /\ FileType(selectedFile) = "text/csv"
    THEN [c EXCEPT !.warning = <<>>, !.file = selectedFile, !.error = <<>>,
                   !.downloadUrl = NoUrl]
    ELSE [c EXCEPT !.warning = <<>>, !.file = NoFile,
                   !.error = <<"Please", "select", "a", "valid", "CSV", "file.">>,
                   !.downloadUrl = NoUrl]

\* handleDownload
handleDownload(c) ==
    IF c.downloadUrl # NoUrl THEN [c EXCEPT !.downloadUrl = NoUrl] ELSE c

\* a run of handleUpload: the await it is suspended at, the file it has
\* captured and the response it has received
UploadRun(at, file, answer) == [at |-> at, file |-> file, answer |-> answer]

UploadAnswer(kind, status, body) == [kind |-> kind, status |-> status, body |-> body]
NoUploadAnswer == UploadAnswer("none", 0, "none")
\* how await fetch("/api/telegram") can settle
UploadAnswers ==
    {UploadAnswer("http", 200, "csv"),
     UploadAnswer("http", 400, "error"),
     UploadAnswer("http", 500, "noError"),
     UploadAnswer("http", 502, "html"),
     UploadAnswer("network", 0, "none")}

\* handleUpload once await file.text() has settled, up to the fetch
TextRead(c, file) ==
    IF TooManyLines(FileText(file))
    THEN [c EXCEPT !.warning = <<"Warning:", "Please", "do", "not", "upload", "a",
                                 "CSV", "with", "more", "than", "80", "lines.">>]
    ELSE [c EXCEPT !.processing = TRUE, !.error = <<>>, !.warning = <<>>]

\* finally { setProcessing(false); setFile(null); ... }
UploadFinally(c) == [c EXCEPT !.processing = FALSE, !.file = NoFile]

\* catch { setError(...) } finally { ... }
UploadCatch(c) ==
    UploadFinally([c EXCEPT !.error = <<"An", "error", "occurred", "while",
                                        "uploading", "the", "file.">>])

\* handleUpload once the body of the response has been read; url is the blob
\* URL createObjectURL gives
UploadBodyRead(c, answer, url) ==
    IF ~Ok(answer)
    THEN CASE answer.body = "error" ->
                UploadFinally([c EXCEPT !.error = <<"No", "file", "uploaded">>,
                                        !.processing = FALSE])
           [] answer.body = "noError" ->
                UploadFinally([c EXCEPT !.error = <<"Error", "uploading", "file.">>,
                                        !.processing = FALSE])
           [] OTHER -> UploadCatch(c)
    ELSE UploadFinally([c EXCEPT !.downloadUrl = url])

\* the form has not been used yet
UploadIdle ==
    /\ csvUpload = CsvUploadState
    /\ uploads = <<>>
    /\ posted = <<>>

-----------------------------------------------------------------------------
(* Actions *)

\* no request has been received yet
Idle ==
    /\ pc = "idle"
    /\ keywords = <<>> /\ ki = 0 /\ di = 0 /\ attempt = 0 /\ hadRetries = FALSE
    /\ rowData = NoRow /\ results = <<>> /\ retryLog = <<>>
    /\ partial = FALSE /\ dailyResults = <<>>
    /\ elapsed = 0 /\ inFlight = 0 /\ waited = 0 /\ calls = {} /\ cell = NoCell
    /\ stopped = FALSE /\ faults = 0 /\ response = NoResponse
    /\ failedCells = {} /\ retriedCells = {}

\* the reference instant of the fixed windows `days`, `months` and `recentDays`
ReferenceNow == At(2024, 3, 15, 12)

\* no window generator is being followed
WindowIdle ==
    /\ tz = "UTC" /\ clock = ReferenceNow /\ generator = "none"
    /\ window = <<>> /\ payload = NoPayload

\* fetchDailyTotal is called by POST, with the default maxRetries
FetcherIdle == maxRetriesArg = DefaultMaxRetries

Init ==
    /\ route \in Routes
    /\ request \in Requests(route)
    /\ Idle
    /\ WindowIdle
    /\ FetcherIdle
    /\ HomeIdle
    /\ StixIdle
    /\ UploadIdle

\* the route receives the request
Post ==
    /\ pc = "idle"
    /\ Set(CASE route \in JsonRoutes -> JsonPost(S)
              [] route \in SeriesRoutes -> SeriesPost(S)
              [] OTHER -> BulkPost(S))

\* the upstream answers that can arrive for the call in flight
Answers(s) ==
    {Nominal(s.ki, s.di)}
    \cup (IF s.faults < MaxFaultyCells \/ s.attempt > 1
          THEN Anomalies(s.route, s.ki, s.di) ELSE {})

\* the handler resumes with the outcome of the call in flight
Settle(s, answer, now) ==
    LET ended == EndCall(s, answer, now)
    IN CASE s.route \in JsonRoutes -> JsonSettle(ended, answer)
         [] s.route \in SeriesRoutes -> SeriesSettle(ended, answer)
         [] s.route = "telegram" -> TelegramAnswer(ended, answer)
         [] OTHER -> PlainSettle(ended, answer)

CallReturn ==
    /\ pc = "inflight"
    /\ \E answer \in Answers(S) : \E now \in Later(S) :
          Set(Settle(S, answer, now))

\* the backoff sleep of the telegram fetcher ends
BackoffDone ==
    /\ pc = "backoff"
    /\ \E now \in Later(S) :
          Set(TelegramRetry(Sleep(S, cell.waits[Len(cell.waits)], now)))

\* mutant: the day loop does not advance
ResumeSameCell(s, now) ==
    LET next == Sleep(s, PacingDelay(s.route), now)
    IN CASE s.route \in JsonRoutes -> JsonLoop(next)
         [] s.route \in SeriesRoutes -> SeriesLoop(next)
         [] OTHER -> BulkLoop(next)

\* the loop moves on once the pacing sleep has ended
Resume(s, now) ==
    LET next == [Sleep(s, PacingDelay(s.route), now) EXCEPT !.di = s.di + 1]
    IN CASE s.route \in JsonRoutes -> JsonLoop(next)
         [] s.route \in SeriesRoutes -> SeriesLoop(next)
         [] OTHER -> BulkLoop(next)

PacingDone ==
    /\ pc = "pacing"
    /\ \E now \in Later(S) : Set(Resume(S, now))

Next == Post \/ CallReturn \/ BackoffDone \/ PacingDone

Spec == Init /\ [][Next]_vars

\* the requests to the telegram route, where every await of the handler
\* eventually resolves: an upstream call answers or is aborted by its timer, and
\* a sleep ends
TelegramInit == Init /\ route = "telegram"

LiveSpec == TelegramInit /\ [][Next]_vars /\ WF_vars(Next)

-----------------------------------------------------------------------------
(* The window generators and query builders on their own: one call of the
   route's generator at some instant in some server time zone, then one call of
   the route's query builder for a keyword and an interval of the window *)

\* reference instants: the middle of a day, the hours around a UTC midnight, the
\* ends of a month and of a year, and the days on which clocks change
Nows ==
    {At(2024, 3, 15, 12), At(2024, 3, 15, 2), At(2024, 3, 15, 23) + 1800,
     At(2024, 3, 31, 23) + 1800, At(2024, 3, 1, 0), At(2024, 1, 1, 3),
     At(2024, 11, 3, 5) + 1, At(2024, 7, 31, 22)}

QueryKeywords == {Keyword(1), Keyword(2)}

NoRequest == [body |-> "none", keyword |-> <<>>]

WindowInit ==
    /\ route \in Routes
    /\ request = NoRequest
    /\ Idle
    /\ tz \in Zones /\ clock \in Nows /\ generator = GeneratorOf(route)
    /\ window = <<>> /\ payload = NoPayload
    /\ FetcherIdle
    /\ HomeIdle
    /\ StixIdle
    /\ UploadIdle

CallGenerator ==
    /\ window = <<>>
    /\ window' = Generate(generator, tz, clock)
    /\ UNCHANGED <<routeVars, tz, clock, generator, payload, fetcherVars, homeVars, stixVars, uploadVars>>

CallBuilder ==
    /\ window # <<>> /\ payload = NoPayload
    /\ \E keyword \in QueryKeywords : \E i \in {1, Len(window)} :
          payload' = BuilderCall(keyword, i, BuildPayload(route, keyword, window[i]))
    /\ UNCHANGED <<routeVars, tz, clock, generator, window, fetcherVars, homeVars, stixVars, uploadVars>>

WindowNext == CallGenerator \/ CallBuilder

WindowSpec == WindowInit /\ [][WindowNext]_vars

-----------------------------------------------------------------------------
(* The telegram fetchDailyTotal on its own: one call for a keyword and a day
   with some maxRetries, whatever the upstream answers on each attempt *)

\* one attempt's answer: the loop continues after a backoff, or the call
\* returns or throws
FetchAnswer(s, answer, max) ==
    LET step == TelegramAttempt(s.attempt, max, s.keywords[s.ki], days[s.di],
                                answer, s.hadRetries)
    IN IF step.kind = "retry"
       THEN [s EXCEPT !.pc = "backoff", !.hadRetries = step.hadRetries,
                      !.retried = @ \cup {<<s.ki, s.di>>},
                      !.cell = [@ EXCEPT !.waits = Append(@, step.wait),
                                         !.hadRetries = step.hadRetries]]
       ELSE [s EXCEPT !.pc = "done", !.hadRetries = step.hadRetries,
                      !.failed = IF step.kind = "throw" THEN @ \cup {<<s.ki, s.di>>}
                                 ELSE @,
                      !.cell = [@ EXCEPT !.result = IF step.kind = "return"
                                                    THEN "success" ELSE "failure",
                                         !.count = step.count,
                                         !.hadRetries = step.hadRetries]]

\* `continue`: the next attempt, or the return after the loop
FetchContinue(s, max) ==
    IF s.attempt + 1 <= max THEN StartCall(s, s.ki, s.di, s.attempt + 1)
    ELSE [s EXCEPT !.pc = "done",
                   !.cell = [@ EXCEPT !.result = "success", !.count = 0]]

FetcherInit ==
    /\ route = "telegram"
    /\ request = NoRequest
    /\ Idle
    /\ WindowIdle
    /\ HomeIdle
    /\ StixIdle
    /\ UploadIdle
    /\ maxRetriesArg \in 1..MaxRetriesParam

\* fetchDailyTotal(keyword, day, maxRetries) is called
FetcherCall ==
    /\ pc = "idle"
    /\ Set(StartCall([S EXCEPT !.keywords = <<Keyword(1)>>], 1, 1, 1))

FetcherReturn ==
    /\ pc = "inflight"
    /\ \E answer \in {Nominal(ki, di)} \cup Anomalies(route, ki, di) :
          Set(FetchAnswer(EndCall(S, answer, elapsed), answer, maxRetriesArg))

FetcherBackoffDone ==
    /\ pc = "backoff"
    /\ Set(FetchContinue(Sleep(S, cell.waits[Len(cell.waits)], elapsed),
                            maxRetriesArg))

FetcherNext == FetcherCall \/ FetcherReturn \/ FetcherBackoffDone

FetcherSpec == FetcherInit /\ [][FetcherNext]_vars

-----------------------------------------------------------------------------
(* The dashboard page on its own *)

HomeInit ==
    /\ route = "threats"
    /\ request = NoRequest
    /\ Idle
    /\ WindowIdle
    /\ FetcherIdle
    /\ home \in {HomeState(version) : version \in PageVersions}
    /\ pending = {} /\ submitted = 0
    /\ lastDone = NoneCompleted
    /\ StixIdle
    /\ UploadIdle

\* onValueChange: the user selects another tab
SelectTab ==
    /\ \E tab \in TabValues \ {home.activeTab} :
          home' = [home EXCEPT !.activeTab = tab]
    /\ UNCHANGED <<pending, submitted, lastDone>>
    /\ UNCHANGED <<routeVars, windowVars, fetcherVars, stixVars, uploadVars>>

\* the user submits the form of the active tab: the handler runs up to its fetch
SubmitForm ==
    /\ submitted < MaxSubmits
    /\ home.activeTab \in QueryTabs
    /\ \E keyword \in HomeKeywords :
          /\ home' = HandleSubmit(home, home.activeTab, keyword)
          /\ pending' = pending \cup
                 {PageRequest(submitted + 1, home.activeTab, keyword, "fetch", NoOutcome)}
    /\ submitted' = submitted + 1
    /\ UNCHANGED lastDone
    /\ UNCHANGED <<routeVars, windowVars, fetcherVars, stixVars, uploadVars>>

\* await fetch(...) of a handler settles: the handler goes on to read the body,
\* or throws and ends in its catch and finally blocks
FetchSettles ==
    /\ \E r \in pending : \E o \in Outcomes(r.handler, r.keyword) :
          /\ r.pc = "fetch"
          /\ IF o.kind = "network"
             THEN /\ home' = HomeCatch(home, Thrown("TypeError", <<"Failed", "to", "fetch">>))
                  /\ pending' = pending \ {r}
                  /\ lastDone' = Completed(r.handler, r.keyword, FALSE, FALSE)
             ELSE IF o.response.status # 200
             THEN /\ home' = HomeCatch(home, Thrown("Error",
                                 FailedToFetch(r.handler, o.response.status)))
                  /\ pending' = pending \ {r}
                  /\ lastDone' = Completed(r.handler, r.keyword, FALSE, FALSE)
             ELSE /\ pending' = (pending \ {r}) \cup
                         {PageRequest(r.id, r.handler, r.keyword, "body", o)}
                  /\ UNCHANGED <<home, lastDone>>
    /\ UNCHANGED submitted
    /\ UNCHANGED <<routeVars, windowVars, fetcherVars, stixVars, uploadVars>>

\* await response.json() or await response.blob() settles
BodySettles ==
    /\ \E r \in pending :
          /\ r.pc = "body"
          /\ pending' = pending \ {r}
          /\ IF r.outcome.body = "unparsable"
             THEN /\ home' = HomeCatch(home, Thrown("SyntaxError",
                                                   <<"Unexpected", "token">>))
                  /\ lastDone' = Completed(r.handler, r.keyword, FALSE, FALSE)
             ELSE IF r.handler = "keyword"
             THEN /\ home' = QueryParsed(home, r.outcome.response)
                  /\ lastDone' = Completed(r.handler, r.keyword, TRUE,
                                           r.outcome.response.partial)
             ELSE /\ home' = BlobDownloaded(home)
                  /\ lastDone' = Completed(r.handler, r.keyword, TRUE, FALSE)
    /\ UNCHANGED submitted
    /\ UNCHANGED <<routeVars, windowVars, fetcherVars, stixVars, uploadVars>>

HomeNext == SelectTab \/ SubmitForm \/ FetchSettles \/ BodySettles

HomeSpec == HomeInit /\ [][HomeNext]_vars

-----------------------------------------------------------------------------
(* The STIX page on its own *)

StixInit ==
    /\ route = "threats"
    /\ request = NoRequest
    /\ Idle
    /\ WindowIdle
    /\ FetcherIdle
    /\ HomeIdle
    /\ stix \in {StixState(version) : version \in StixVersions}
    /\ stixRequest = NoStixAnswer /\ stixAt = "none"
    /\ blobUrls = NoBlobUrls /\ effectUrl = NoUrl
    /\ stixDone = <<>>
    /\ UploadIdle

StixSet(page) ==
    /\ stix' = page.x
    /\ blobUrls' = page.blobs

\* the Generate button, enabled unless isLoading
\* React runs a pending effect before it handles an event or another update
EffectsFlushed == effectUrl = stix.downloadUrl

StixGenerate ==
    /\ stix.mounted /\ ~stix.isLoading /\ EffectsFlushed
    /\ Len(stixDone) < MaxGenerations
    /\ StixSet(GenerateClick(stix, blobUrls))
    /\ stixAt' = "fetch"
    /\ UNCHANGED <<stixRequest, effectUrl, stixDone>>
    /\ UNCHANGED <<routeVars, windowVars, fetcherVars, homeVars, uploadVars>>

\* the handler has settled; its state updates are dropped once unmounted
StixEnd(page, answer) ==
    /\ IF stix.mounted THEN StixSet(page) ELSE UNCHANGED <<stix, blobUrls>>
    /\ stixAt' = "none"
    /\ stixRequest' = NoStixAnswer
    /\ stixDone' = Append(stixDone, answer)

\* await fetch(...) settles
StixFetchSettles ==
    /\ stixAt = "fetch" /\ EffectsFlushed
    /\ \E answer \in StixAnswers :
          IF answer.kind = "network"
          THEN StixEnd(StixCatch(stix, blobUrls, <<"Failed", "to", "fetch">>), answer)
          ELSE /\ stixAt' = (IF IsOkJson(answer) THEN "blob" ELSE "errorBody")
               /\ stixRequest' = answer
               /\ UNCHANGED <<stix, blobUrls, stixDone>>
    /\ UNCHANGED effectUrl
    /\ UNCHANGED <<routeVars, windowVars, fetcherVars, homeVars, uploadVars>>

\* await response.blob() settles
StixBlobSettles ==
    /\ stixAt = "blob"
    /\ stixAt' = "text"
    /\ UNCHANGED <<stix, stixRequest, blobUrls, effectUrl, stixDone>>
    /\ UNCHANGED <<routeVars, windowVars, fetcherVars, homeVars, uploadVars>>

\* await bundleBlob.text() settles, or await response.json() / response.text()
\* of the else branch
StixBodySettles ==
    /\ stixAt \in {"text", "errorBody"} /\ EffectsFlushed
    /\ StixEnd(IF stixAt = "text" THEN BundleRead(stix, blobUrls, stixRequest)
               ELSE ErrorRead(stix, blobUrls, stixRequest),
               stixRequest)
    /\ UNCHANGED effectUrl
    /\ UNCHANGED <<routeVars, windowVars, fetcherVars, homeVars, uploadVars>>

\* React runs the effect after a render in which downloadUrl has changed
StixEffect ==
    /\ stix.mounted /\ effectUrl # stix.downloadUrl
    /\ blobUrls' = RunEffect(stix, blobUrls, effectUrl)
    /\ effectUrl' = stix.downloadUrl
    /\ UNCHANGED <<stix, stixRequest, stixAt, stixDone>>
    /\ UNCHANGED <<routeVars, windowVars, fetcherVars, homeVars, uploadVars>>

\* the user leaves the page: the cleanup of the last effect runs
StixUnmount ==
    /\ stix.mounted /\ EffectsFlushed
    /\ stix' = [stix EXCEPT !.mounted = FALSE]
    /\ blobUrls' = Revoke(blobUrls, effectUrl)
    /\ UNCHANGED <<stixRequest, stixAt, effectUrl, stixDone>>
    /\ UNCHANGED <<routeVars, windowVars, fetcherVars, homeVars, uploadVars>>

StixNext ==
    \/ StixGenerate \/ StixFetchSettles \/ StixBlobSettles \/ StixBodySettles
    \/ StixEffect \/ StixUnmount

StixSpec == StixInit /\ [][StixNext]_vars

-----------------------------------------------------------------------------
(* The Telegram upload form on its own *)

UploadInit ==
    /\ route = "threats"
    /\ request = NoRequest
    /\ Idle
    /\ WindowIdle
    /\ FetcherIdle
    /\ HomeIdle
    /\ StixIdle
    /\ UploadIdle

\* the user picks a file, or cancels the dialog
FileChange ==
    /\ \E selectedFile \in PickableFiles \cup {NoFile} :
          csvUpload' = handleFileChange(csvUpload, selectedFile)
    /\ UNCHANGED <<uploads, posted>>
    /\ UNCHANGED <<routeVars, windowVars, fetcherVars, homeVars, stixVars>>

\* the Upload button: handleUpload up to await file.text()
UploadClick ==
    /\ ~UploadDisabled(csvUpload)
    /\ Len(uploads) < MaxUploads
    /\ uploads' = Append(uploads, UploadRun("text", csvUpload.file, NoUploadAnswer))
    /\ UNCHANGED <<csvUpload, posted>>
    /\ UNCHANGED <<routeVars, windowVars, fetcherVars, homeVars, stixVars>>

\* await file.text() of run i settles
UploadTextSettles ==
    /\ \E i \in DOMAIN uploads :
          /\ uploads[i].at = "text"
          /\ csvUpload' = TextRead(csvUpload, uploads[i].file)
          /\ IF TooManyLines(FileText(uploads[i].file))
             THEN /\ uploads' = [uploads EXCEPT ![i].at = "rejected"]
                  /\ UNCHANGED posted
             ELSE /\ uploads' = [uploads EXCEPT ![i].at = "fetch"]
                  /\ posted' = Append(posted, uploads[i].file)
    /\ UNCHANGED <<routeVars, windowVars, fetcherVars, homeVars, stixVars>>

\* await fetch("/api/telegram") of run i settles
UploadFetchSettles ==
    /\ \E i \in DOMAIN uploads :
          /\ uploads[i].at = "fetch"
          /\ \E answer \in UploadAnswers :
                IF answer.kind = "network"
                THEN /\ csvUpload' = UploadCatch(csvUpload)
                     /\ uploads' = [uploads EXCEPT ![i].at = "completed",
                                                   ![i].answer = answer]
                ELSE /\ uploads' = [uploads EXCEPT ![i].at = "body",
                                                   ![i].answer = answer]
                     /\ UNCHANGED csvUpload
    /\ UNCHANGED posted
    /\ UNCHANGED <<routeVars, windowVars, fetcherVars, homeVars, stixVars>>

\* await res.json() or await res.blob() of run i settles
UploadBodySettles ==
    /\ \E i \in DOMAIN uploads :
          /\ uploads[i].at = "body"
          /\ csvUpload' = UploadBodyRead(csvUpload, uploads[i].answer, i)
          /\ uploads' = [uploads EXCEPT ![i].at = "completed"]
    /\ UNCHANGED posted
    /\ UNCHANGED <<routeVars, windowVars, fetcherVars, homeVars, stixVars>>

\* the Download button
Download ==
    /\ csvUpload.downloadUrl # NoUrl
    /\ csvUpload' = handleDownload(csvUpload)
    /\ UNCHANGED <<uploads, posted>>
    /\ UNCHANGED <<routeVars, windowVars, fetcherVars, homeVars, stixVars>>

UploadNext ==
    \/ FileChange \/ UploadClick \/ UploadTextSettles \/ UploadFetchSettles
    \/ UploadBodySettles \/ Download

UploadSpec == UploadInit /\ [][UploadNext]_vars

-----------------------------------------------------------------------------
(* Properties *)

AllCells == {<<k, d>> : k \in 1..Len(keywords), d \in 1..WindowDays}

ClientError(answer) ==
    answer.kind = "http" /\ answer.status >= 400 /\ answer.status <= 499
        /\ answer.status # 429

\* C1: in the telegram fetcher an answer with a 4xx status other than 429 ends
\* the fetch as Failure on the attempt that received it: no backoff wait follows
\* and no further upstream call is made for the cell.
C1_ClientErrorNeverRetried ==
    (route = "telegram" /\ ClientError(cell.answer))
        => (cell.result = "failure" /\ pc # "backoff")

\* C2: a telegram fetch makes between 1 and 3 upstream calls, numbered 1, 2, 3 in
\* order; it ends as Success only on an attempt that received an OK answer, and
\* any non-OK outcome of attempt 3 ends it as Failure.
C2_BoundedAttempts ==
    (route = "telegram" /\ cell.result # "none") =>
        /\ Len(cell.attempts) \in 1..DefaultMaxRetries
        /\ cell.attempts = [i \in 1..Len(cell.attempts) |-> i]
        /\ attempt = Len(cell.attempts)
        /\ cell.result \in {"pending", "success", "failure"}
        /\ (cell.result = "success" => Ok(cell.answer))
        /\ (cell.result = "pending" => pc \in {"inflight", "backoff"})
        /\ (Len(cell.attempts) = DefaultMaxRetries /\ cell.answer # NoAnswer
                /\ ~Ok(cell.answer)
              => cell.result = "failure" /\ pc # "backoff")

C2_Witness ==
    /\ route = "telegram" /\ Len(cell.attempts) = 3
    /\ cell.answer.status = 500 /\ cell.result = "failure"

C4_JsonPrefix ==
    route \in JsonRoutes =>
        /\ Len(dailyResults) <= WindowDays
        /\ \A i \in 1..Len(dailyResults) : dailyResults[i].day = days[i]
        /\ (response.status = 200 =>
               /\ response.data = dailyResults
               /\ (response.partial = FALSE) = (Len(response.data) = WindowDays))
        /\ (partial =>
               /\ pc = "done" /\ inFlight = 0 /\ response.partial
               /\ Len(dailyResults) < WindowDays
               /\ calls = {<<1, d>> : d \in 1..(Len(dailyResults) + 1)})

C4_Witness ==
    /\ route = "credentials" /\ partial /\ Len(dailyResults) = 3
    /\ response.status = 200

\* C5 (as claimed): every bulk route attempts every cell of every keyword and
\* emits exactly one data row per input keyword, whatever the outcomes and the
\* timing.
C5_AlwaysFullTable ==
    (route \in BulkRoutes /\ response.type = "csv") =>
        /\ calls = AllCells
        /\ Len(response.csv) = Len(keywords) + 1

\* C5 (amended): unless a budget check of the telegram route has found the limit
\* exceeded, a bulk route attempts every cell of every keyword, failed cells
\* included, and emits exactly one data row per input keyword, in input order;
\* only the telegram route stops on its budget, and then it emits a row for
\* each keyword it had started and none for the others.
C5_FullTableUnlessStopped ==
    /\ (route \in BulkRoutes /\ response.type = "csv" /\ ~stopped) =>
          /\ calls = AllCells
          /\ Len(response.csv) = Len(keywords) + 1
          /\ \A k \in 1..Len(keywords) : response.csv[k + 1][1] = keywords[k]
    /\ (route \in BulkRoutes /\ cell.result = "failure" /\ ~stopped
            /\ <<cell.k, cell.d>> # <<Len(keywords), WindowDays>>)
          => pc # "done"
    /\ (stopped => /\ route = "telegram"
                   /\ Len(response.csv) = ki + 1
                   /\ \A k \in 1..ki : response.csv[k + 1][1] = keywords[k])

C5_Witness ==
    /\ route = "telegram" /\ response.type = "csv" /\ ~stopped
    /\ Len(keywords) = 2
    /\ retryLog = <<FailedEntry(keywords[1], days[3])>>

\* C6: once a budget check of the telegram route has observed more than
\* 280000 ms elapsed, no further upstream call is started: the response is sent,
\* every cell that was not fetched is missing from the table, blank or zero, and
\* the trailer says that processing stopped or is incomplete.
C6_BudgetStops ==
    stopped =>
        /\ route = "telegram" /\ pc = "done" /\ inFlight = 0
        /\ elapsed > TIMEOUT_LIMIT
        /\ response.type = "csv"
        /\ \A c \in AllCells \ calls :
              \/ c[1] + 1 > Len(response.csv)
              \/ response.csv[c[1] + 1][c[2] + 1] \in {<<>>, <<0>>}
        /\ \E i \in DOMAIN response.trailer :
              response.trailer[i].type \in {"stopped", "incomplete"}

C6_Witness ==
    /\ stopped /\ Len(keywords) = 2 /\ ki = 1 /\ di = 4
    /\ Len(response.csv) = 2
    /\ response.csv[2][4] # <<>> /\ response.csv[2][5] = <<>>

\* C7: the header row of every CSV a bulk route emits is the term column
\* followed by the 7 date labels in order, never an internal key such as day1.
C7_HeaderShowsLabels ==
    (route \in BulkRoutes /\ response.type = "csv")
        => response.csv[1] = <<"keyword">> \o days

C9_OneInFlight ==
    /\ inFlight \in {0, 1}
    /\ (inFlight = 1) = (pc = "inflight")

C9_Witness ==
    /\ route = "telegram" /\ pc = "inflight" /\ inFlight = 1
    /\ cell.attempts = <<1, 2, 3>> /\ Cardinality(calls) = 9

\* the request lacks the upload or the term, or the upload is not a usable one
InputError ==
    IF route \notin BulkRoutes
    THEN request.body # "object" \/ request.keyword = <<>>
    ELSE request.form # "multipart" \/ request.file # "file"
            \/ ExtractKeywords(request.lines) = <<>>

\* C10: a request with an input error is answered with status 400 and a JSON
\* error body, and no upstream call is made for it.
C10_InputErrorIs400 ==
    (InputError /\ pc = "done") =>
        /\ response.status = 400 /\ response.type = "json" /\ response.error # ""
        /\ calls = {}

\* C11: in every route, when at least one cell's fetch failed and its count was
\* degraded to zero, the response carries an indication, the partial flag or a
\* trailer annotation, that the response of a run without any failure lacks.
C11_FailureIsFlagged ==
    (response.status = 200 /\ failedCells # {})
        => (response.partial \/ response.trailer # <<>>)

\* the last answer of the current telegram cell was a network failure or the
\* abort by the 30 s timer
C12_NetworkOrTimeout ==
    route = "telegram" /\ cell.answer.kind \in {"network", "timeout"}

C12_AfterTheAnswer ==
    C12_NetworkOrTimeout =>
        LET n == Len(cell.attempts)
        IN /\ inFlight = 0
           /\ IF n < DefaultMaxRetries
              THEN /\ pc = "backoff" /\ cell.result = "pending"
                   /\ Len(cell.waits) = n
                   /\ cell.waits[n] = (IF n = 1 THEN 2000 ELSE 4000)
              ELSE /\ cell.result = "failure"
                   /\ <<cell.k, cell.d>> \in failedCells
                   /\ rowData[days[cell.d]] = 0
                   /\ \/ pc = "pacing"
                      \/ /\ pc = "done" /\ response.type = "csv"
                         /\ stopped \/ <<cell.k, cell.d>> = <<Len(keywords), WindowDays>>

C12_AfterTheBackoff ==
    (C12_NetworkOrTimeout /\ pc = "backoff") =>
        /\ pc' = "inflight" /\ inFlight' = 1
        /\ attempt' = attempt + 1
        /\ cell'.k = cell.k /\ cell'.d = cell.d
        /\ cell'.attempts = Append(cell.attempts, attempt + 1)
        /\ waited' = cell.waits[Len(cell.waits)]

C12_AfterTheFailure ==
    (C12_NetworkOrTimeout /\ pc = "pacing" /\ ~OverBudget(elapsed')) =>
        /\ pc' \in {"inflight", "done"}
        /\ pc' = "inflight" =>
              /\ attempt' = 1
              /\ <<cell'.k, cell'.d>> =
                    (IF cell.d < WindowDays THEN <<cell.k, cell.d + 1>>
                     ELSE <<cell.k + 1, 1>>)
        /\ pc' = "done" => <<cell.k, cell.d>> = <<Len(keywords), WindowDays>>

C13_Bounded ==
    route = "telegram" =>
        /\ Len(cell.attempts) <= DefaultMaxRetries
        /\ calls \subseteq AllCells
        /\ Cardinality(calls) <= Len(keywords) * WindowDays
        /\ (pc = "done" /\ calls # {}) => response.type = "csv"

\* C13: every telegram run ends with a response when every await resolves: a
\* cell takes at most 3 attempts, the run calls at most (keywords x 7) cells,
\* and a run that has started its first call ends with the CSV response.
C13_Terminates ==
    /\ []C13_Bounded
    /\ (route = "telegram") ~> (pc = "done")
    /\ (route = "telegram" /\ pc = "inflight")
          ~> (pc = "done" /\ response.type = "csv")

C13_Witness ==
    /\ route = "telegram" /\ pc = "done" /\ response.type = "csv" /\ ~stopped
    /\ Cardinality(calls) = 2 * WindowDays
    /\ Len(retryLog) = 1 /\ retryLog[1].type = "recovered"

\* the number of entries of a day-mode window
DayWindowLength == IF generator = "last7Days" THEN 7 ELSE 365

\* C14: whatever the instant and the server's time zone, a day-mode generator
\* returns exactly the N UTC calendar days before the UTC day that contains the
\* instant, oldest first.
C14_DaysAreUtcDays ==
    (generator \in {"last7Days", "last365Days"} /\ window # <<>>) =>
        LET today == clock \div SecondsPerDay
            n == DayWindowLength
        IN window = [i \in 1..n |-> CivilFromDays(today - n - 1 + i)]

\* the j-th of the 12 UTC calendar months before the month that contains the clock
C15_Month(j) ==
    LET today == CivilFromDays(clock \div SecondsPerDay)
        index == today[1] * 12 + (today[2] - 1) - (13 - j)
    IN <<index \div 12, (index % 12) + 1>>

\* C15: whatever the instant, the month generator returns 12 intervals, oldest
\* first; the j-th starts at 00:00:00Z on the first day and ends at 23:59:59Z on
\* the last day of the j-th of the 12 UTC months before the current one and is
\* labelled with that month.
C15_MonthsAreUtcMonths ==
    (generator = "last12Months" /\ window # <<>>) =>
        /\ Len(window) = 12
        /\ \A j \in 1..12 :
              LET ym == C15_Month(j)
                  first == DaysFromCivil(ym[1], ym[2], 1)
                  last == DaysFromCivil(ym[1], ym[2] + 1, 1) - 1
              IN /\ window[j].label = ym
                 /\ window[j].start = StartOfDay(CivilFromDays(first))
                 /\ window[j].end = EndOfDay(CivilFromDays(last))

\* C16: whatever the instant, the window length and the server's time zone, the
\* day list has exactly N entries, each one calendar day after the one before
\* it, and the last entry's 23:59:59Z is strictly before the instant.
C16_DaysContiguousBeforeNow ==
    (generator \in {"last7Days", "last365Days"} /\ window # <<>>) =>
        LET n == DayWindowLength
            Day(i) == DaysFromCivil(window[i][1], window[i][2], window[i][3])
        IN /\ Len(window) = n
           /\ \A i \in 1..(n - 1) : Day(i + 1) = Day(i) + 1
           /\ InstantOf(EndOfDay(window[n])) < clock

\* the [start, end] of entry i of the window
C17_Interval(i) ==
    IF generator = "last12Months" THEN <<window[i].start, window[i].end>>
    ELSE <<StartOfDay(window[i]), EndOfDay(window[i])>>

\* C17: in every route the payload built for a term and an interval asks for
\* zero records, for highlighting and for the total, restricts the date range
\* to the interval's start and end, and carries the term in its query.
C17_PayloadIsCountOnly ==
    payload # NoPayload =>
        LET body == payload.body
            term == payload.keyword
        IN /\ body.size = 0
           /\ body.highlight
           /\ body.includeTotal = "true"
           /\ <<body.start, body.end>> = C17_Interval(payload.index)
           /\ \E k \in 0..(Len(body.query) - Len(term)) :
                 SubSeq(body.query, k + 1, k + Len(term)) = term

\* C18: the count a fetcher extracts from an OK body is the number at
\* total.value or at hits.total, whichever the body has, in the telegram
\* fetcher as in the credentials fetcher.
C18_CountFromEitherShape ==
    (route \in {"telegram", "credentials"} /\ cell.result = "success"
        /\ cell.answer.shape \in {"total.value", "hits.total"})
        => cell.count = cell.answer.n

\* C19: in every single-keyword route, the 12-month and the 365-day route
\* included, no upstream call is made for an interval later than one whose
\* fetch failed.
C19_SingleKeywordFailsFast ==
    route \in JsonRoutes \cup SeriesRoutes =>
        \A f \in failedCells : \A c \in calls : c[2] <= f[2]

\* the telegram run degraded: a cell needed a retry, a cell failed, or a budget
\* check stopped the run
C20_Degraded == retriedCells # {} \/ failedCells # {} \/ stopped

\* C20: in a CSV response of the telegram route the comment block and the
\* X-Retry-Count and X-Retry-Info headers are present exactly when the run
\* degraded; the header row and the data rows come first and are those of the
\* table, the block follows them, and X-Retry-Count is the number of logged
\* entries.
C20_TrailerIffDegraded ==
    (route = "telegram" /\ response.type = "csv") =>
        LET table == ToCsv(<<"keyword">> \o days, results)
            rows == Len(results) + 1
            block == SubSeq(response.body, rows + 1, Len(response.body))
        IN /\ SubSeq(response.body, 1, rows) = table
           /\ (block # <<>>) = C20_Degraded
           /\ (response.xRetryCount # <<>>) = C20_Degraded
           /\ (response.xRetryInfo # <<>>) = C20_Degraded
           /\ C20_Degraded =>
                 /\ response.xRetryCount = <<Len(retryLog)>>
                 /\ Len(block) = Len(retryLog) + 3
                 /\ block[1].type = "blank" /\ block[2].type = "title"
                 /\ SubSeq(block, 3, Len(block) - 1) = retryLog
                 /\ block[Len(block)].type = "note"

C20_Witness ==
    /\ route = "telegram" /\ response.type = "csv"
    /\ retriedCells = {<<1, 2>>} /\ failedCells = {} /\ ~stopped
    /\ Len(keywords) = 2
    /\ response.xRetryCount = <<1>> /\ Len(response.body) = 3 + 4

\* the waits the claim states, for attempt n >= 1
C21_RateLimitWait(n) == IF 3^n * 5000 < 60000 THEN 3^n * 5000 ELSE 60000
C21_GenericWait(n) == 2^n * 1000

\* C21: in the telegram fetcher, whatever maxRetries, on every attempt n >= 1
\* that a retry follows the wait after a 429 is min(3^n x 5000, 60000) ms and
\* the wait after a 5xx or a network or timeout failure is 2^n x 1000 ms; the
\* 429 wait is at most 60000 ms and at least the generic wait of the attempt.
C21_RateLimitWaitsLonger ==
    (route = "telegram" /\ pc = "backoff") =>
        LET n == attempt
            wait == cell.waits[Len(cell.waits)]
        IN /\ n >= 1 /\ n < maxRetriesArg
           /\ wait = (IF cell.answer.status = 429 THEN C21_RateLimitWait(n)
                      ELSE C21_GenericWait(n))
           /\ C21_RateLimitWait(n) <= 60000
           /\ C21_RateLimitWait(n) >= C21_GenericWait(n)

\* C22: on the dashboard at most one of the error banner, the partial-results
\* warning and the 'No Data' banner is displayed at any moment; a 7-day
\* response with partial = true never shows the warning with 'No Data'.
C22_OneBanner ==
    /\ ~(ShowsError(home) /\ ShowsWarning(home))
    /\ ~(ShowsError(home) /\ ShowsNoData(home))
    /\ ~(ShowsWarning(home) /\ ShowsNoData(home))

\* C26: whenever the partial-results warning is displayed, the request that
\* completed last is a 7-day query whose response had partial = true.
C26_WarningIsOfLastQuery ==
    ShowsWarning(home) =>
        (lastDone.handler = "keyword" /\ lastDone.ok /\ lastDone.partial)

\* C27: the loading indicator is shown whenever at least one request of the
\* page is in flight.
C27_LoadingWhileInFlight == pending # {} => ShowsLoading(home)

\* C28: whenever no request is in flight and the chart is shown, its data is
\* the data a 7-day response for the keyword in the title carries.
C28_ChartIsOfTitle ==
    (pending = {} /\ ShowsChart(home)) =>
        \E n \in DataLengths :
            home.chartData =
                NewChartData(ThreatsOk(KeywordIndex(home.currentKeyword), n).data)

\* C25: a CSV response of the telegram route says that processing stopped or
\* is incomplete only when at least one cell of the input was not fetched.
C25_AnnotatedOnlyIfUnfetched ==
    (route = "telegram" /\ response.type = "csv"
        /\ \E i \in DOMAIN response.trailer :
               response.trailer[i].type \in {"stopped", "incomplete"})
        => calls # AllCells

\* C30: in the telegram route a failed cell has the value 0, and the entry
\* 'Failed to process ... after retries' is logged for it only if the cell
\* was retried.
C30_FailedAfterRetriesOnlyIfRetried ==
    route = "telegram" =>
        \A c \in failedCells :
            LET row == IF c[1] <= Len(results) THEN results[c[1]] ELSE rowData
                entry == FailedEntry(keywords[c[1]], days[c[2]])
            IN /\ row[days[c[2]]] = 0
               /\ (\E i \in DOMAIN retryLog : retryLog[i] = entry)
                     => c \in retriedCells

\* the status the claim gives a generate request answered with `answer`
C23_Expected(answer) ==
    IF \/ answer.kind = "network"
       \/ answer.status < 200 \/ answer.status > 299
       \/ answer.contentType # "application/json"
       \/ answer.body = "unparsable"
    THEN "error"
    ELSE IF answer.body = "bundle" /\ answer.objects > 1 THEN "success"
    ELSE "warning"

\* C23: on the STIX page every generate request ends with isLoading = false
\* and the status of its answer: success for an OK JSON bundle of more than one
\* object, warning for an OK JSON body with at most one, error otherwise; a
\* download URL is held only in the success status and never while a request
\* is loading.
C23_OneStatusPerRequest ==
    stix.mounted =>
        /\ (stixAt = "none" /\ stixDone # <<>>) =>
              /\ ~stix.isLoading
              /\ stix.status.type = C23_Expected(stixDone[Len(stixDone)])
        /\ stixAt # "none" => (stix.isLoading /\ stix.status.type = "info")
        /\ stix.downloadUrl # NoUrl =>
              (stix.status.type = "success" /\ ~stix.isLoading /\ stixAt = "none")

C23_Witness ==
    /\ stix.mounted /\ stixAt = "none"
    /\ stixDone = <<BundleBody(2), BundleBody(1)>>
    /\ stix.status.type = "warning" /\ stix.downloadUrl = NoUrl
    /\ blobUrls = [created |-> 1, revoked |-> {1}]

\* C24: whenever the STIX page offers the download button, the blob URL it
\* points to has not been revoked.
C24_OfferedUrlIsLive ==
    (stix.mounted /\ ShowsDownload(stix)) => stix.downloadUrl \notin blobUrls.revoked

\* run i of handleUpload takes the step from `from` to `to`
C29_Step(i, from, to) ==
    /\ i \in DOMAIN uploads /\ uploads[i].at = from /\ uploads'[i].at = to

\* C29: CsvUploadTelegram never sends a file with more than 80 non-empty lines
\* to /api/telegram; when handleUpload rejects such a file it leaves
\* processing = false and file and downloadUrl as they were; when an upload
\* that was sent completes, processing is false and file is null.
C29_OnlySmallFilesSent ==
    [][/\ \A n \in DOMAIN posted' : Len(NonEmptyLines(FileText(posted'[n]))) <= LineLimit
       /\ \A i \in DOMAIN uploads :
             /\ C29_Step(i, "text", "rejected") =>
                   /\ Truthy(csvUpload'.warning)
                   /\ csvUpload'.processing = FALSE
                   /\ csvUpload'.file = csvUpload.file
                   /\ csvUpload'.downloadUrl = csvUpload.downloadUrl
                   /\ posted' = posted
             /\ (C29_Step(i, "fetch", "completed") \/ C29_Step(i, "body", "completed")) =>
                   /\ csvUpload'.processing = FALSE
                   /\ csvUpload'.file = NoFile]_vars

====
